---- MODULE Spec2Model ----
(***************************************************************************)
(* Model of op_registration/OP_registration.py: the `run` command         *)
(* (schedule_registration), the weekly job (run_automation), one browser  *)
(* attempt (launch_registration_process, handle_registration) and the     *)
(* persisted configuration (.env file, process environment).              *)
(*                                                                         *)
(* A Python string is a sequence of atoms: an atom is a word ("u1",       *)
(* "Setter"), a blank " " or a comma ",".  None is a reserved value.      *)
(***************************************************************************)
EXTENDS Integers, Sequences, FiniteSets, TLC

VARIABLES
    pc,           \* position of the process in schedule_registration and below
    file,         \* the .env file: a function from the keys it holds to strings
    env,          \* os.environ: a function from the variables set to strings
    credentials,  \* the dict returned by set_credentials inside run_automation
    jobs,         \* schedule's job list (the job ids still scheduled)
    now,          \* the clock
    next_run,     \* the job's next_run
    browser,      \* "none", "open" or "closed"
    context,      \* "none", "open" or "closed"
    response,     \* status of the response of page.goto (0: none yet)
    visible,      \* what the is_visible calls of the classifier returned
    pageState,    \* the branch of the classifier taken in this attempt
    step,         \* number of completed statements of handle_registration
    exc,          \* the exception in flight ("none", "TimeoutError", "Error")
    runs,         \* number of times the job body run_automation was entered
    log           \* the operations performed so far, in order

vars == <<pc, file, env, credentials, jobs, now, next_run, browser, context,
          response, visible, pageState, step, exc, runs, log>>

(***************************************************************************)
(* Bounds of the model.                                                    *)
(***************************************************************************)
MaxDelay == 1       \* the job is due at most this many ticks after arming
MaxOversleep == 1   \* time.sleep(n) returns at most this many ticks late
MaxSelected == 2    \* at most this many positions ticked at the prompt

(***************************************************************************)
(* Strings.                                                                *)
(***************************************************************************)
None == <<"<None>">>

\* str.strip(): leading and trailing blanks removed
RECURSIVE lstrip(_)
lstrip(s) == IF s # <<>> /\ Head(s) = " " THEN lstrip(Tail(s)) ELSE s

RECURSIVE rstrip(_)
rstrip(s) ==
    IF s # <<>> /\ s[Len(s)] = " " THEN rstrip(SubSeq(s, 1, Len(s) - 1)) ELSE s

strip(s) == rstrip(lstrip(s))

\* ",".join(value): the strings of the list with a comma between neighbours
RECURSIVE join(_)
join(list) ==
    IF list = <<>> THEN <<>>
    ELSE IF Len(list) = 1 THEN list[1]
    ELSE list[1] \o <<",">> \o join(Tail(list))

\* positions.split(","): the pieces between the commas; "" gives [""]
RECURSIVE split(_)
split(s) ==
    IF \A i \in 1..Len(s) : s[i] # ","
    THEN <<s>>
    ELSE LET i == CHOOSE j \in 1..Len(s) :
                      s[j] = "," /\ \A k \in 1..(j - 1) : s[k] # ","
         IN  <<SubSeq(s, 1, i - 1)>> \o split(SubSeq(s, i + 1, Len(s)))

\* key.upper() on the keys of the credentials dict
upper(key) ==
    CASE key = "email"     -> "EMAIL"
      [] key = "password"  -> "PASSWORD"
      [] key = "signature" -> "SIGNATURE"
      [] key = "url"       -> "URL"
      [] key = "positions" -> "POSITIONS"

\* value or ""
OrEmpty(value) == IF value = None \/ value = <<>> THEN <<>> ELSE value

(***************************************************************************)
(* The persisted configuration.                                            *)
(***************************************************************************)
\* the keys of the dict built by load_env_variables, in its order
CredKeys == <<"email", "password", "signature", "url", "positions">>

\* set_key writing quotes that reading the file does not take off again
set_key_quoted(f, key, value) ==
    [k \in DOMAIN f \cup {key} |->
        IF k = key THEN <<"'">> \o value \o <<"'">> ELSE f[k]]

\* dotenv.set_key: upsert of one key of the file
set_key(f, key, value) ==
    [k \in DOMAIN f \cup {key} |-> IF k = key THEN value ELSE f[k]]

\* os.getenv
getenv(e, key) == IF key \in DOMAIN e THEN e[key] ELSE None

\* load_dotenv(dotenv_path=env_path): the file's keys are put in the
\* environment, a variable that is already set keeps its value
load_dotenv(e, f) ==
    [k \in DOMAIN e \cup DOMAIN f |-> IF k \in DOMAIN e THEN e[k] ELSE f[k]]

\* the dict load_env_variables returns, read from the environment e
load_env_variables(e) ==
    [k \in {CredKeys[i] : i \in 1..Len(CredKeys)} |-> getenv(e, upper(k))]

\* save_to_env: for each key of data, set_key(KEY, (value or "").strip())
RECURSIVE save_keys(_, _, _)
save_keys(f, data, keys) ==
    IF keys = <<>> THEN f
    ELSE save_keys(set_key(f, upper(Head(keys)), strip(OrEmpty(data[Head(keys)]))),
                   data, Tail(keys))

save_to_env(f, data) == save_keys(f, data, CredKeys)

\* clear_url: set_key(env_path, "URL", "")
clear_url(f) == set_key(f, "URL", <<>>)

(***************************************************************************)
(* Inputs: what the user types at the prompts, and the configuration the  *)
(* process finds when it starts.                                           *)
(***************************************************************************)
\* the choices of the positions checkbox prompt
Choices == <<"Setter", "Outside", "Middle", "Opposite">>

\* the ticked choices, in the order of the prompt's list
RECURSIVE Ticked(_)
Ticked(S) ==
    IF S = {} THEN <<>>
    ELSE LET i == CHOOSE j \in S : \A k \in S : j <= k
         IN  <<<<Choices[i]>>>> \o Ticked(S \ {i})

Selections ==
    {Ticked(S) : S \in {T \in SUBSET (1..Len(Choices)) : Cardinality(T) <= MaxSelected}}

UrlInputs == {<<"u1">>, <<"u2", " ">>}
EmailInputs == {<<"e1">>}
PasswordInputs == {<<"p1">>}
SignatureInputs == {<<"s1">>, <<>>}

NoFile == [k \in {} |-> <<>>]

\* the file a completed earlier run left: credentials kept, URL cleared
ClearedFile ==
    [k \in {"EMAIL", "PASSWORD", "SIGNATURE", "URL", "POSITIONS"} |->
        CASE k = "EMAIL"     -> <<"e0">>
          [] k = "PASSWORD"  -> <<"p0">>
          [] k = "SIGNATURE" -> <<"s0">>
          [] k = "URL"       -> <<>>
          [] k = "POSITIONS" -> <<"Middle">>]

\* the file an earlier run left that ended before clear_url
UnclearedFile == [ClearedFile EXCEPT !["URL"] = <<"u0">>]

InitFiles == {NoFile, ClearedFile, UnclearedFile}

\* the environment of the shell that starts the process: none of the
\* five variables is set
InitEnvs == {NoFile}

\* the four is_visible results the classifier reads
NothingVisible ==
    [register |-> FALSE, disabled |-> FALSE, pay_now |-> FALSE, sold_out |-> FALSE]

Ev(op, target, arg) == [op |-> op, target |-> target, arg |-> arg]

Init ==
    /\ pc = "start"
    /\ file \in InitFiles
    /\ env \in InitEnvs
    /\ credentials = [k \in {} |-> <<>>]
    /\ jobs = {}
    /\ now = 0
    /\ next_run = 0
    /\ browser = "none"
    /\ context = "none"
    /\ response = 0
    /\ visible = NothingVisible
    /\ pageState = "none"
    /\ step = 0
    /\ exc = "none"
    /\ runs = 0
    /\ log = <<>>

(***************************************************************************)
(* set_credentials and set_registration: load, merge the prompt's         *)
(* answers, save.                                                          *)
(***************************************************************************)
\* the dict set_credentials builds from the environment e
merge_credentials(e, email, password, signature) ==
    [load_env_variables(e) EXCEPT !["email"] = email,
                                  !["password"] = password,
                                  !["signature"] = signature]

\* the dict set_registration builds from the environment e
merge_registration(e, url, positions) ==
    [load_env_variables(e) EXCEPT !["url"] = url,
                                  !["positions"] = join(positions)]

\* the command `set-credentials`
set_credentials ==
    /\ pc = "start"
    /\ \E email \in EmailInputs, password \in PasswordInputs,
          signature \in SignatureInputs :
          LET e == load_dotenv(env, file)
              c == merge_credentials(e, email, password, signature)
          IN  /\ env' = e
              /\ file' = save_to_env(file, c)
              /\ credentials' = c
              /\ log' = Append(log, Ev("save_to_env", "set_credentials", <<>>))
    /\ pc' = "exited"
    /\ UNCHANGED <<jobs, now, next_run, browser, context, response, visible,
                   pageState, step, exc, runs>>

\* the command `run`, line 277: set_registration()
set_registration ==
    /\ pc = "start"
    /\ \E url \in UrlInputs, positions \in Selections :
          LET e == load_dotenv(env, file)
              c == merge_registration(e, url, positions)
          IN  /\ env' = e
              /\ file' = save_to_env(file, c)
              /\ log' = Append(log, Ev("save_to_env", "set_registration", <<>>))
    /\ pc' = "arm"
    /\ UNCHANGED <<credentials, jobs, now, next_run, browser, context, response,
                   visible, pageState, step, exc, runs>>

(***************************************************************************)
(* schedule_registration: arm the weekly job, then loop until no job is   *)
(* left.                                                                   *)
(***************************************************************************)
\* schedule.idle_seconds(): None (here -1 with no job) or next_run - now
NoJob == jobs = {}
idle_seconds == next_run - now

\* line 278: schedule.every().friday.at("12:00").do(run_automation)
schedule_job ==
    /\ pc = "arm"
    /\ jobs' = {"run_automation"}
    /\ \E d \in 1..MaxDelay : next_run' = now + d
    /\ pc' = "loop"
    /\ UNCHANGED <<file, env, credentials, now, browser, context, response,
                   visible, pageState, step, exc, runs, log>>

\* the clock advances between arming the job and reading idle_seconds
tick ==
    /\ pc = "loop"
    /\ ~NoJob
    /\ now < next_run
    /\ now' = now + 1
    /\ UNCHANGED <<pc, file, env, credentials, jobs, next_run, browser, context,
                   response, visible, pageState, step, exc, runs, log>>

\* lines 280-283: n is None, break
loop_break ==
    /\ pc = "loop"
    /\ NoJob
    /\ pc' = "exited"
    /\ UNCHANGED <<file, env, credentials, jobs, now, next_run, browser, context,
                   response, visible, pageState, step, exc, runs, log>>

\* a sleep that returns one tick before the job is due
loop_sleep_short ==
    /\ pc = "loop"
    /\ ~NoJob
    /\ idle_seconds > 0
    /\ now' = now + idle_seconds - 1
    /\ log' = Append(log, Ev("sleep", "loop", <<>>))
    /\ pc' = "run_pending"
    /\ UNCHANGED <<file, env, credentials, jobs, next_run, browser, context,
                   response, visible, pageState, step, exc, runs>>

\* lines 284-286: n > 0, time.sleep(n)
loop_sleep ==
    /\ pc = "loop"
    /\ ~NoJob
    /\ idle_seconds > 0
    /\ \E late \in 0..MaxOversleep : now' = now + idle_seconds + late
    /\ log' = Append(log, Ev("sleep", "loop", <<>>))
    /\ pc' = "run_pending"
    /\ UNCHANGED <<file, env, credentials, jobs, next_run, browser, context,
                   response, visible, pageState, step, exc, runs>>

\* lines 284-287: n <= 0, no sleep
loop_due ==
    /\ pc = "loop"
    /\ ~NoJob
    /\ idle_seconds <= 0
    /\ pc' = "run_pending"
    /\ UNCHANGED <<file, env, credentials, jobs, now, next_run, browser, context,
                   response, visible, pageState, step, exc, runs, log>>

\* line 287: schedule.run_pending() runs the job when it is due
run_pending ==
    /\ pc = "run_pending"
    /\ IF ~NoJob /\ now >= next_run
       THEN /\ pc' = "run_automation"
            /\ runs' = runs + 1
       ELSE /\ pc' = "loop"
            /\ runs' = runs
    /\ UNCHANGED <<file, env, credentials, jobs, now, next_run, browser, context,
                   response, visible, pageState, step, exc, log>>

\* line 266: credentials = set_credentials()
run_set_credentials ==
    /\ pc = "run_automation"
    /\ \E email \in EmailInputs, password \in PasswordInputs,
          signature \in SignatureInputs :
          LET e == load_dotenv(env, file)
              c == merge_credentials(e, email, password, signature)
          IN  /\ env' = e
              /\ file' = save_to_env(file, c)
              /\ credentials' = c
              /\ log' = Append(log, Ev("save_to_env", "set_credentials", <<>>))
    /\ pc' = "launch"
    /\ UNCHANGED <<jobs, now, next_run, browser, context, response, visible,
                   pageState, step, exc, runs>>

(***************************************************************************)
(* launch_registration_process: one attempt.  Every call into the browser *)
(* returns, raises playwright's TimeoutError or raises another Error.     *)
(***************************************************************************)
Outcomes == {"ok", "TimeoutError", "Error"}
Failures == Outcomes \ {"ok"}

\* the response statuses page.goto may return
Statuses == {200, 202, 404}

\* line 202: response.status not in [200, 202]
bad_status(s) == s \notin {200, 202}

\* the handler catching an exception class playwright never raises
caught_none(e) == FALSE

\* line 247: except TimeoutError
caught(e) == e = "TimeoutError"

\* line 209 without its `not`
classify_inverted(v) ==
    IF ~v.register THEN "RegistrationOpen"
    ELSE IF v.disabled THEN "AtCapacity"
    ELSE IF v.pay_now \/ v.sold_out THEN "AlreadyRegisteredOrSoldOut"
    ELSE "RegisterLinkMissing"

\* the tests of lines 210 and 218 in the other order
classify_sold_out_first(v) ==
    IF v.register THEN "RegistrationOpen"
    ELSE IF v.pay_now \/ v.sold_out THEN "AlreadyRegisteredOrSoldOut"
    ELSE IF v.disabled THEN "AtCapacity"
    ELSE "RegisterLinkMissing"

\* line 220 with `and` for `or`
classify_pay_and_sold(v) ==
    IF v.register THEN "RegistrationOpen"
    ELSE IF v.disabled THEN "AtCapacity"
    ELSE IF v.pay_now /\ v.sold_out THEN "AlreadyRegisteredOrSoldOut"
    ELSE "RegisterLinkMissing"

\* lines 209-232: the branch the is_visible results select
classify(v) ==
    IF v.register THEN "RegistrationOpen"
    ELSE IF v.disabled THEN "AtCapacity"
    ELSE IF v.pay_now \/ v.sold_out THEN "AlreadyRegisteredOrSoldOut"
    ELSE "RegisterLinkMissing"

\* lines 213-232: the notification and the log line of a branch
notification(state) ==
    CASE state = "AtCapacity" ->
           <<Ev("notify", "Open Play is at capacity.", <<>>),
             Ev("logging.info", "Open Play is at capacity", <<>>)>>
      [] state = "AlreadyRegisteredOrSoldOut" ->
           <<Ev("notify", "You are already registered or sold out.", <<>>),
             Ev("logging.info", "Already registered or sold out", <<>>)>>
      [] state = "RegisterLinkMissing" ->
           <<Ev("notify", "Open Play registration link not found.", <<>>),
             Ev("logging.error", "Register link not found", <<>>)>>

\* lines 162-185: the browser calls of handle_registration, in order
handle_registration_steps(email, password, signature, positions) ==
    <<Ev("click", "link Register", <<>>),
      Ev("click", "#reg-fa", <<>>),
      Ev("wait_for_timeout", "2000", <<>>),
      Ev("click", "link Sign in with LeagueApps", <<>>),
      Ev("click", "textbox Email", <<>>),
      Ev("fill", "textbox Email", email),
      Ev("click", "textbox Password", <<>>),
      Ev("fill", "textbox Password", password),
      Ev("click", "button Sign in with LeagueApps", <<>>),
      Ev("check", "I am eligible", <<>>)>>
    \o [i \in 1..Len(split(positions)) |->
           Ev("check", "position", split(positions)[i])]
    \o <<Ev("click", "Next", <<>>),
         Ev("check", "waiver-accept-cb-0", <<>>),
         Ev("check", "waiver-accept-cb-1", <<>>),
         Ev("check", "waiver-accept-cb-2", <<>>),
         Ev("click", "#electronicSignature", <<>>),
         Ev("fill", "#electronicSignature", signature),
         Ev("click", "#register-submit", <<>>)>>

\* lines 238-245: the steps of this attempt
Plan ==
    handle_registration_steps(credentials["email"], credentials["password"],
                              credentials["signature"], credentials["positions"])

\* lines 186-189
success_notification ==
    Ev("notify", "You have successfully registered for Open Play.", <<>>)

Raised(e, where) == Ev("raise", e, <<where>>)

\* an exception raised inside the try block of lines 200-255
RaiseInTry(e, where) ==
    /\ log' = Append(log, Raised(e, where))
    /\ IF caught(e)
       THEN /\ pc' = "except"
            /\ exc' = "none"
       ELSE /\ pc' = "finally"
            /\ exc' = e

\* an exception raised before the try block: nothing up to the top of the
\* process catches it
RaiseOutside(e, where) ==
    /\ log' = Append(log, Raised(e, where))
    /\ pc' = "crashed"
    /\ exc' = e

\* line 194: playwright.chromium.launch
launch ==
    /\ pc = "launch"
    /\ \/ /\ browser' = "open"
          /\ log' = Append(log, Ev("launch", "chromium", <<>>))
          /\ pc' = "new_context"
          /\ exc' = exc
       \/ /\ \E e \in Failures : RaiseOutside(e, "launch")
          /\ browser' = browser
    /\ UNCHANGED <<file, env, credentials, jobs, now, next_run, context, response,
                   visible, pageState, step, runs>>

\* lines 195-198: browser.new_context
new_context ==
    /\ pc = "new_context"
    /\ \/ /\ context' = "open"
          /\ log' = Append(log, Ev("new_context", "browser", <<>>))
          /\ pc' = "new_page"
          /\ exc' = exc
       \/ /\ \E e \in Failures : RaiseOutside(e, "new_context")
          /\ context' = context
    /\ UNCHANGED <<file, env, credentials, jobs, now, next_run, browser, response,
                   visible, pageState, step, runs>>

\* line 199: context.new_page
new_page ==
    /\ pc = "new_page"
    /\ \/ /\ log' = Append(log, Ev("new_page", "context", <<>>))
          /\ pc' = "goto"
          /\ exc' = exc
       \/ \E e \in Failures : RaiseOutside(e, "new_page")
    /\ UNCHANGED <<file, env, credentials, jobs, now, next_run, browser, context,
                   response, visible, pageState, step, runs>>

\* lines 201-203: page.goto(credentials["url"]) and the status test
goto ==
    /\ pc = "goto"
    /\ \/ \E s \in Statuses :
             /\ response' = s
             /\ IF bad_status(s)
                THEN /\ log' = log \o <<Ev("goto", "url", credentials["url"]),
                                        Ev("logging.error", "Page not found", <<>>)>>
                     /\ pageState' = "PageLoadFailed"
                     /\ pc' = "bad_status_screenshot"
                ELSE /\ log' = Append(log, Ev("goto", "url", credentials["url"]))
                     /\ pageState' = pageState
                     /\ pc' = "wait_for_selector"
             /\ exc' = exc
       \/ /\ \E e \in Failures : RaiseInTry(e, "goto")
          /\ UNCHANGED <<response, pageState>>
       \/ \* goto returns None: response.status raises AttributeError
          /\ log' = log \o <<Ev("goto", "url", credentials["url"]),
                             Raised("Error", "status")>>
          /\ pc' = "finally"
          /\ exc' = "Error"
          /\ UNCHANGED <<response, pageState>>
    /\ UNCHANGED <<file, env, credentials, jobs, now, next_run, browser, context,
                   visible, step, runs>>

\* lines 204-205: page.screenshot(path="error_screenshot.png"); return
bad_status_screenshot ==
    /\ pc = "bad_status_screenshot"
    /\ \/ /\ log' = Append(log, Ev("screenshot", "error_screenshot.png", <<>>))
          /\ pc' = "finally"
          /\ exc' = exc
       \/ \E e \in Failures : RaiseInTry(e, "bad_status_screenshot")
    /\ UNCHANGED <<file, env, credentials, jobs, now, next_run, browser, context,
                   response, visible, pageState, step, runs>>

\* line 207: page.wait_for_selector("iframe")
wait_for_selector ==
    /\ pc = "wait_for_selector"
    /\ \/ /\ log' = Append(log, Ev("wait_for_selector", "iframe", <<>>))
          /\ pc' = "classify"
          /\ exc' = exc
       \/ \E e \in Failures : RaiseInTry(e, "wait_for_selector")
    /\ UNCHANGED <<file, env, credentials, jobs, now, next_run, browser, context,
                   response, visible, pageState, step, runs>>

\* lines 208-232: the is_visible tests and the notification of the branch
classify_frame ==
    /\ pc = "classify"
    /\ \E v \in [register : BOOLEAN, disabled : BOOLEAN,
                 pay_now : BOOLEAN, sold_out : BOOLEAN] :
          /\ visible' = v
          /\ pageState' = classify(v)
          /\ IF classify(v) = "RegistrationOpen"
             THEN /\ pc' = "handle_registration"
                  /\ log' = log
             ELSE /\ pc' = "classify_screenshot"
                  /\ log' = log \o notification(classify(v))
    /\ UNCHANGED <<file, env, credentials, jobs, now, next_run, browser, context,
                   response, step, exc, runs>>

\* lines 233-236: page.screenshot(debug_screenshot/error_screenshot.png); return
classify_screenshot ==
    /\ pc = "classify_screenshot"
    /\ \/ /\ log' = Append(log, Ev("screenshot",
                                   "debug_screenshot/error_screenshot.png", <<>>))
          /\ pc' = "finally"
          /\ exc' = exc
       \/ \E e \in Failures : RaiseInTry(e, "classify_screenshot")
    /\ UNCHANGED <<file, env, credentials, jobs, now, next_run, browser, context,
                   response, visible, pageState, step, runs>>

\* a Form Driver that swallows the failure of a step and goes on
handle_registration_continue ==
    /\ pc = "handle_registration"
    /\ step < Len(Plan)
    /\ \/ /\ log' = Append(log, Plan[step + 1])
          /\ exc' = exc
       \/ /\ \E e \in Failures : log' = Append(log, Raised(e, "handle_registration"))
          /\ exc' = "none"
    /\ step' = step + 1
    /\ pc' = IF step + 1 = Len(Plan) THEN "notify_success" ELSE pc
    /\ UNCHANGED <<file, env, credentials, jobs, now, next_run, browser, context,
                   response, visible, pageState, runs>>

\* lines 162-185: the next browser call of handle_registration
handle_registration ==
    /\ pc = "handle_registration"
    /\ step < Len(Plan)
    /\ \/ /\ log' = Append(log, Plan[step + 1])
          /\ step' = step + 1
          /\ pc' = IF step + 1 = Len(Plan) THEN "notify_success" ELSE pc
          /\ exc' = exc
       \/ /\ \E e \in Failures : RaiseInTry(e, "handle_registration")
          /\ step' = step
    /\ UNCHANGED <<file, env, credentials, jobs, now, next_run, browser, context,
                   response, visible, pageState, runs>>

\* lines 186-189: Notifier.notify("You have successfully registered ...")
notify_success ==
    /\ pc = "notify_success"
    /\ log' = Append(log, success_notification)
    /\ pc' = "finally"
    /\ UNCHANGED <<file, env, credentials, jobs, now, next_run, browser, context,
                   response, visible, pageState, step, exc, runs>>

\* lines 247-252: except TimeoutError: log, screenshot
except_timeout ==
    /\ pc = "except"
    /\ \/ /\ log' = log \o <<Ev("logging.error", "TimeoutError", <<>>),
                             Ev("screenshot",
                                "debug_screenshot/error_screenshot.png", <<>>),
                             Ev("logging.info", "Screenshot saved", <<>>)>>
          /\ exc' = "none"
       \/ \E e \in Failures :
             /\ log' = log \o <<Ev("logging.error", "TimeoutError", <<>>),
                                Raised(e, "except")>>
             /\ exc' = e
    /\ pc' = "finally"
    /\ UNCHANGED <<file, env, credentials, jobs, now, next_run, browser, context,
                   response, visible, pageState, step, runs>>

\* run_automation returning schedule.CancelJob before it calls clear_url
finally_then_cancel ==
    /\ pc = "finally"
    /\ context' = "closed"
    /\ browser' = "closed"
    /\ log' = log \o <<Ev("close", "context", <<>>), Ev("close", "browser", <<>>)>>
    /\ pc' = IF exc = "none" THEN "cancel_job" ELSE "crashed"
    /\ UNCHANGED <<file, env, credentials, jobs, now, next_run, response, visible,
                   pageState, step, exc, runs>>

\* lines 253-255: finally: context.close(); browser.close(); then the
\* function returns, or the exception in flight goes on to the top
finally ==
    /\ pc = "finally"
    /\ context' = "closed"
    /\ browser' = "closed"
    /\ log' = log \o <<Ev("close", "context", <<>>), Ev("close", "browser", <<>>)>>
    /\ pc' = IF exc = "none" THEN "clear_url" ELSE "crashed"
    /\ UNCHANGED <<file, env, credentials, jobs, now, next_run, response, visible,
                   pageState, step, exc, runs>>

\* line 271: clear_url()
run_clear_url ==
    /\ pc = "clear_url"
    /\ file' = clear_url(file)
    /\ log' = log \o <<Ev("set_key", "URL", <<>>),
                       Ev("logging.info", "URL cleared from .env file.", <<>>)>>
    /\ pc' = "cancel_job"
    /\ UNCHANGED <<env, credentials, jobs, now, next_run, browser, context,
                   response, visible, pageState, step, exc, runs>>

\* run_automation returning None: run_pending keeps the job
cancel_job_keep ==
    /\ pc = "cancel_job"
    /\ jobs' = jobs
    /\ log' = Append(log, Ev("cancel_job", "run_automation", <<>>))
    /\ pc' = "loop"
    /\ UNCHANGED <<file, env, credentials, now, next_run, browser, context,
                   response, visible, pageState, step, exc, runs>>

\* line 272: return schedule.CancelJob; run_pending then removes the job
cancel_job ==
    /\ pc = "cancel_job"
    /\ jobs' = jobs \ {"run_automation"}
    /\ log' = Append(log, Ev("cancel_job", "run_automation", <<>>))
    /\ pc' = "loop"
    /\ UNCHANGED <<file, env, credentials, now, next_run, browser, context,
                   response, visible, pageState, step, exc, runs>>

Next ==
    \/ set_credentials
    \/ set_registration
    \/ schedule_job
    \/ tick
    \/ loop_break
    \/ loop_sleep
    \/ loop_due
    \/ run_pending
    \/ run_set_credentials
    \/ launch
    \/ new_context
    \/ new_page
    \/ goto
    \/ bad_status_screenshot
    \/ wait_for_selector
    \/ classify_frame
    \/ classify_screenshot
    \/ handle_registration
    \/ notify_success
    \/ except_timeout
    \/ finally
    \/ run_clear_url
    \/ cancel_job

Spec == Init /\ [][Next]_vars

(***************************************************************************)
(* What the log of an execution shows.                                     *)
(***************************************************************************)
Has(op, target) == \E i \in 1..Len(log) : log[i].op = op /\ log[i].target = target

HasOp(op) == \E i \in 1..Len(log) : log[i].op = op

\* the exception e was raised by the statement `where`
RaisedAt(e, where) == \E i \in 1..Len(log) : log[i] = Raised(e, where)

IsNotification(ev) == ev.op = "notify"
Notifications == SelectSeq(log, IsNotification)

IsScreenshot(ev) == ev.op = "screenshot"
Screenshots == SelectSeq(log, IsScreenshot)

\* a browser call of the Form Driver: click, fill, check or the settle delay
IsFormStep(ev) == ev.op \in {"click", "fill", "check", "wait_for_timeout"}
FormSteps == SelectSeq(log, IsFormStep)

SubmitClicked == Has("click", "#register-submit")

\* launch_registration_process has returned
AttemptReturned == runs > 0 /\ pc \in {"clear_url", "cancel_job", "loop", "exited"}

\* launch_registration_process has returned or raised
AttemptEnded == AttemptReturned \/ pc = "crashed"

\* run_automation has returned or raised
RunEnded == runs > 0 /\ pc \in {"loop", "exited", "crashed"}

\* the attempt got its browser session and went through its try block
WentThroughTry == browser = "closed"

NotOpenStates == {"AtCapacity", "AlreadyRegisteredOrSoldOut", "RegisterLinkMissing"}

(***************************************************************************)
(* C1.  Cleanup invariant: once an attempt that drove the browser has     *)
(* ended and run_automation is over, whatever the outcome (failures       *)
(* raised while driving the browser included), the persisted URL is       *)
(* empty.                                                                  *)
(***************************************************************************)
C1_UrlEmptyAfterAttempt ==
    (RunEnded /\ WentThroughTry) => ("URL" \in DOMAIN file /\ file["URL"] = <<>>)

(***************************************************************************)
(* C2.  The Form Driver runs only when the page state is RegistrationOpen:*)
(* handle_registration is entered, and a form step performed, only after  *)
(* a response with status 200 or 202, the frame's appearance and a        *)
(* visible Register link; in the other page states no form step is ever   *)
(* performed.                                                              *)
(***************************************************************************)
C2_FormDriverOnlyWhenOpen ==
    /\ (pc \in {"handle_registration", "notify_success"} \/ FormSteps # <<>>) =>
          /\ response \in {200, 202}
          /\ Has("wait_for_selector", "iframe")
          /\ visible.register
          /\ pageState = "RegistrationOpen"
    /\ (pageState \in NotOpenStates \cup {"PageLoadFailed"}) => FormSteps = <<>>

\* the Form Driver has acted on a page that also shows the other signals
C2_Witness ==
    /\ pc = "handle_registration"
    /\ step >= 2
    /\ visible.disabled
    /\ visible.sold_out

(***************************************************************************)
(* C3.  Every attempt that returns has emitted exactly one notification,  *)
(* the one of its outcome; a bad response status and a timed-out attempt  *)
(* included; and the success notification is emitted only after the final *)
(* submit was clicked.                                                     *)
(***************************************************************************)
C3_ExactlyOneNotification ==
    /\ AttemptReturned =>
          /\ Len(Notifications) = 1
          /\ pageState \in NotOpenStates =>
                Notifications[1] = notification(pageState)[1]
    /\ Has("notify", success_notification.target) => SubmitClicked

(***************************************************************************)
(* C4.  No failure inside the attempt goes past                           *)
(* launch_registration_process: the process ends with an uncaught         *)
(* exception only when the browser session could not be acquired.         *)
(***************************************************************************)
C4_FailuresCaughtAtOrchestrator == pc = "crashed" => ~WentThroughTry

(***************************************************************************)
(* C5.  The job is single-shot: once its run has finished in any way, a   *)
(* failure to acquire the browser session included, the job is off the    *)
(* schedule and its body has run exactly once.                             *)
(***************************************************************************)
C5_JobCancelledAfterRun == RunEnded => (jobs = {} /\ runs = 1)

(***************************************************************************)
(* C6.  Session release: when an attempt has returned or raised, neither  *)
(* the browser nor the browser context is open.                           *)
(***************************************************************************)
C6_SessionReleased == AttemptEnded => (browser # "open" /\ context # "open")

(***************************************************************************)
(* C7.  Tie-break: with the Register link not visible, the disabled       *)
(* large button visible and a Sold Out notice or a Pay Now control        *)
(* visible too, the attempt is AtCapacity: the "at capacity" notification *)
(* is emitted and the "already registered or sold out" one is not.        *)
(***************************************************************************)
C7_AtCapacityBeforeSoldOut ==
    (/\ Has("wait_for_selector", "iframe")
     /\ pc # "classify"
     /\ ~visible.register
     /\ visible.disabled
     /\ (visible.sold_out \/ visible.pay_now)) =>
        /\ pageState = "AtCapacity"
        /\ Has("notify", "Open Play is at capacity.")
        /\ ~Has("notify", "You are already registered or sold out.")

C7_Witness ==
    /\ pc = "clear_url"
    /\ ~visible.register
    /\ visible.disabled
    /\ visible.sold_out
    /\ Len(Notifications) = 1

(***************************************************************************)
(* C8.  Decision table: the page state is the first match of              *)
(*   status not in {200, 202}            -> PageLoadFailed                 *)
(*   Register visible                    -> RegistrationOpen               *)
(*   disabled large button visible       -> AtCapacity                     *)
(*   Pay Now or Sold Out visible         -> AlreadyRegisteredOrSoldOut     *)
(*   otherwise                           -> RegisterLinkMissing            *)
(* for every combination of the signals, and it is one state.             *)
(***************************************************************************)
DecisionTable ==
    <<[state |-> "RegistrationOpen", when |-> {v \in [register : BOOLEAN, disabled : BOOLEAN, pay_now : BOOLEAN, sold_out : BOOLEAN] : v.register}],
      [state |-> "AtCapacity", when |-> {v \in [register : BOOLEAN, disabled : BOOLEAN, pay_now : BOOLEAN, sold_out : BOOLEAN] : v.disabled}],
      [state |-> "AlreadyRegisteredOrSoldOut", when |-> {v \in [register : BOOLEAN, disabled : BOOLEAN, pay_now : BOOLEAN, sold_out : BOOLEAN] : v.pay_now \/ v.sold_out}],
      [state |-> "RegisterLinkMissing", when |-> [register : BOOLEAN, disabled : BOOLEAN, pay_now : BOOLEAN, sold_out : BOOLEAN]]>>

FirstMatch(v) ==
    DecisionTable[CHOOSE i \in 1..Len(DecisionTable) :
                     /\ v \in DecisionTable[i].when
                     /\ \A j \in 1..(i - 1) : v \notin DecisionTable[j].when].state

C8_DecisionTable ==
    /\ (response # 0 /\ response \notin {200, 202}) =>
          /\ pageState = "PageLoadFailed"
          /\ ~Has("wait_for_selector", "iframe")
    /\ (Has("wait_for_selector", "iframe") /\ pc # "classify") =>
          /\ response \in {200, 202}
          /\ pageState = FirstMatch(visible)
          /\ pageState = "RegistrationOpen" => Notifications = <<>> \/ SubmitClicked
          /\ pageState \in NotOpenStates =>
                Notifications = <<notification(FirstMatch(visible))[1]>>

\* Register is visible together with every other signal, and the attempt
\* went on as RegistrationOpen
C8_Witness ==
    /\ pc = "handle_registration"
    /\ visible.register
    /\ visible.disabled
    /\ visible.pay_now
    /\ visible.sold_out
    /\ step = 1

(***************************************************************************)
(* C9.  Frame never appears.  The claim as written: a timed-out wait for  *)
(* the frame is handled as PageLoadFailed, on the path of a bad response  *)
(* status, and not as a timeout.                                           *)
(***************************************************************************)
FrameTimedOut == RaisedAt("TimeoutError", "wait_for_selector")

ScreenshotSites == {"bad_status_screenshot", "classify_screenshot", "except"}

\* position in the log of the first screenshot taken or attempted (0: none)
FirstScreenshot ==
    LET S == {i \in 1..Len(log) :
                 \/ log[i].op = "screenshot"
                 \/ /\ log[i].op = "raise"
                    /\ log[i].arg \in {<<w>> : w \in ScreenshotSites}}
    IN  IF S = {} THEN 0 ELSE CHOOSE i \in S : \A j \in S : i <= j

FirstClose ==
    LET S == {i \in 1..Len(log) : log[i].op = "close"}
    IN  IF S = {} THEN 0 ELSE CHOOSE i \in S : \A j \in S : i <= j

FormDriveFailed == \E e \in Failures : RaisedAt(e, "handle_registration")

C10_ScreenshotBeforeRelease ==
    /\ (/\ AttemptEnded
        /\ \/ pageState \in NotOpenStates \cup {"PageLoadFailed"}
           \/ FrameTimedOut
           \/ FormDriveFailed) =>
          /\ FirstScreenshot > 0
          /\ FirstScreenshot < FirstClose
    /\ (AttemptEnded /\ pageState = "PageLoadFailed") =>
          /\ Len(Screenshots) <= 1
          /\ ~Has("wait_for_selector", "iframe")

(***************************************************************************)
(* C11.  Form Driver ordering: an attempt that has clicked the final      *)
(* submit has performed, once each and in this order: click Register,     *)
(* click the registration start, the 2-second delay, the sign-in (click   *)
(* sign-in, fill email, fill password, submit), check eligibility, one    *)
(* position checkbox per entry of positions in their order, click Next,   *)
(* check waivers 0, 1, 2, fill the signature, click submit; the success   *)
(* notification comes after the submit.  For n entries there are n        *)
(* position checks and 3 waiver checks.                                    *)
(***************************************************************************)
\* the entries of a comma-joined list: the empty string holds no entry
Entries(s) == IF s = <<>> THEN <<>> ELSE split(s)

\* the clicks that put the focus in a text field before it is filled
IsFocusClick(ev) ==
    /\ ev.op = "click"
    /\ ev.target \in {"textbox Email", "textbox Password", "#electronicSignature"}

IsNamedStep(ev) == IsFormStep(ev) /\ ~IsFocusClick(ev)

IsPositionCheck(ev) == ev.op = "check" /\ ev.target = "position"

IsWaiverCheck(ev) ==
    /\ ev.op = "check"
    /\ ev.target \in {"waiver-accept-cb-0", "waiver-accept-cb-1", "waiver-accept-cb-2"}

ClaimedSteps ==
    <<Ev("click", "link Register", <<>>),
      Ev("click", "#reg-fa", <<>>),
      Ev("wait_for_timeout", "2000", <<>>),
      Ev("click", "link Sign in with LeagueApps", <<>>),
      Ev("fill", "textbox Email", credentials["email"]),
      Ev("fill", "textbox Password", credentials["password"]),
      Ev("click", "button Sign in with LeagueApps", <<>>),
      Ev("check", "I am eligible", <<>>)>>
    \o [i \in 1..Len(Entries(credentials["positions"])) |->
           Ev("check", "position", Entries(credentials["positions"])[i])]
    \o <<Ev("click", "Next", <<>>),
         Ev("check", "waiver-accept-cb-0", <<>>),
         Ev("check", "waiver-accept-cb-1", <<>>),
         Ev("check", "waiver-accept-cb-2", <<>>),
         Ev("fill", "#electronicSignature", credentials["signature"]),
         Ev("click", "#register-submit", <<>>)>>

C11_FormDriverOrder ==
    SubmitClicked =>
        /\ SelectSeq(log, IsNamedStep) = ClaimedSteps
        /\ Len(SelectSeq(log, IsPositionCheck)) = Len(Entries(credentials["positions"]))
        /\ Len(SelectSeq(log, IsWaiverCheck)) = 3
        /\ \A i \in 1..Len(log) :
              log[i] = success_notification =>
                 \E j \in 1..(i - 1) : log[j] = Ev("click", "#register-submit", <<>>)

\* the same, for a positions string that holds an entry
C11_OrderWhenPositionsGiven ==
    (SubmitClicked /\ credentials["positions"] # <<>>) => C11_FormDriverOrder

(***************************************************************************)
(* C12.  No retries within an attempt: once a step of the Form Driver has *)
(* failed, the attempt is aborted at that step: the steps performed are   *)
(* the steps before it, once each and in order, nothing of the form is    *)
(* performed after the failure, the final submit is not clicked, the      *)
(* success notification is not emitted and the trigger starts no second   *)
(* attempt.                                                                *)
(***************************************************************************)
\* position in the log of the failure of a Form Driver step (0: none)
FormFailure ==
    LET S == {i \in 1..Len(log) :
                 log[i].op = "raise" /\ log[i].arg = <<"handle_registration">>}
    IN  IF S = {} THEN 0 ELSE CHOOSE i \in S : \A j \in S : i <= j

C12_NoRetryAfterFailedStep ==
    FormFailure > 0 =>
        /\ pc \notin {"handle_registration", "notify_success"}
        /\ step < Len(Plan)
        /\ FormSteps = SubSeq(Plan, 1, step)
        /\ \A j \in (FormFailure + 1)..Len(log) :
              /\ ~IsFormStep(log[j])
              /\ log[j] # success_notification
              /\ log[j].op \notin {"raise", "launch", "goto"}
                    \/ log[j].arg = <<"except">>
        /\ ~SubmitClicked
        /\ ~Has("notify", success_notification.target)
        /\ Cardinality({i \in 1..Len(log) : log[i].op = "launch"}) = 1
        /\ runs = 1

\* the sign-in submit failed after eight steps, and the run went on to its end
C12_Witness ==
    /\ FormFailure > 0
    /\ step = 8
    /\ pc = "exited"

(***************************************************************************)
(* C13.  Timeout recovery: when a bounded wait has timed out during       *)
(* navigation or in a step of the Form Driver, the timeout is caught in   *)
(* the attempt and the process does not end; once the attempt is over a   *)
(* screenshot was taken and the session is closed, and once the run is    *)
(* over the persisted URL is empty and the job is cancelled.              *)
(***************************************************************************)
WaitTimedOut ==
    \E w \in {"goto", "wait_for_selector", "handle_registration"} :
        RaisedAt("TimeoutError", w)

C13_TimeoutRecovery ==
    WaitTimedOut =>
        /\ pc # "crashed"
        /\ AttemptEnded =>
              /\ Has("screenshot", "debug_screenshot/error_screenshot.png")
              /\ browser = "closed"
              /\ context = "closed"
        /\ RunEnded =>
              /\ "URL" \in DOMAIN file /\ file["URL"] = <<>>
              /\ jobs = {}

(***************************************************************************)
(* C14.  Order within a run: clear_url resets the persisted URL only      *)
(* after the attempt is over and its session closed, never while the      *)
(* session is open and never before a browser call; the job is cancelled  *)
(* only after that reset; one attempt per trigger.                         *)
(***************************************************************************)
Index(ev) ==
    LET S == {i \in 1..Len(log) : log[i] = ev}
    IN  IF S = {} THEN 0 ELSE CHOOSE i \in S : \A j \in S : i <= j

UrlReset == Index(Ev("set_key", "URL", <<>>))
JobCancel == Index(Ev("cancel_job", "run_automation", <<>>))
SessionClosed == Index(Ev("close", "browser", <<>>))

BrowserOps ==
    {"launch", "new_context", "new_page", "goto", "wait_for_selector",
     "screenshot", "click", "fill", "check", "wait_for_timeout", "close"}

C14_AttemptCleanupCancel ==
    /\ (browser = "open" \/ context = "open") => UrlReset = 0
    /\ UrlReset > 0 =>
          /\ browser = "closed" /\ context = "closed"
          /\ 0 < SessionClosed /\ SessionClosed < UrlReset
          /\ \A j \in (UrlReset + 1)..Len(log) :
                log[j].op \notin BrowserOps \cup {"notify", "set_key"}
    /\ JobCancel > 0 => (0 < UrlReset /\ UrlReset < JobCancel)
    /\ (runs > 0 /\ jobs = {}) => JobCancel > 0
    /\ Cardinality({i \in 1..Len(log) : log[i].op = "launch"}) <= 1

\* a run that went through attempt, cleanup and cancellation
C14_Witness ==
    /\ pc = "loop"
    /\ runs = 1
    /\ jobs = {}
    /\ 0 < SessionClosed /\ SessionClosed < UrlReset /\ UrlReset < JobCancel

(***************************************************************************)
(* C15.  Scheduler termination and no re-arm: the job body runs at most   *)
(* once per invocation of `run`; a job is put on the schedule only by     *)
(* line 278, before any run; once the job has run and cancelled itself    *)
(* the process is in the loop or has left it, and the only step the loop  *)
(* takes with no job left is the break.                                    *)
(***************************************************************************)
C15_AtMostOneRun ==
    /\ runs <= 1
    /\ (runs > 0 /\ jobs = {}) => pc \in {"loop", "exited"}
    /\ (runs > 0 /\ pc = "exited") => (jobs = {} /\ JobCancel > 0)

C15_LoopStep ==
    /\ (pc = "loop" /\ NoJob) => pc' = "exited"
    /\ (jobs' # jobs /\ jobs' # {}) => (pc = "arm" /\ runs = 0)
    /\ runs' # runs => (runs = 0 /\ pc = "run_pending")
    /\ pc = "exited" => pc' = "exited"

C15_SchedulerTerminates == []C15_AtMostOneRun /\ [][C15_LoopStep]_vars

\* Armed -> Running -> Idle: the job ran, cancelled itself and the loop ended
C15_Witness ==
    /\ pc = "exited"
    /\ runs = 1
    /\ jobs = {}
    /\ Has("sleep", "loop")

(***************************************************************************)
(* C16.  Form Driver precondition: whenever handle_registration is        *)
(* invoked, email, password and signature are non-empty and positions is  *)
(* a non-empty list of values among Setter, Outside, Middle, Opposite; no *)
(* position checkbox with an empty value is ever checked.                  *)
(***************************************************************************)
ChoiceNames == {<<Choices[i]>> : i \in 1..Len(Choices)}

C16_FormDriverPrecondition ==
    /\ pc \in {"handle_registration", "notify_success"} =>
          /\ credentials["email"] \notin {None, <<>>}
          /\ credentials["password"] \notin {None, <<>>}
          /\ credentials["signature"] \notin {None, <<>>}
          /\ credentials["positions"] \notin {None, <<>>}
          /\ \A i \in 1..Len(split(credentials["positions"])) :
                split(credentials["positions"])[i] \in ChoiceNames
    /\ ~\E i \in 1..Len(log) : IsPositionCheck(log[i]) /\ log[i].arg = <<>>

\* the part of C16 about the positions alone
C16_PositionsNonEmpty ==
    /\ pc \in {"handle_registration", "notify_success"} =>
          credentials["positions"] \notin {None, <<>>}
    /\ ~\E i \in 1..Len(log) : IsPositionCheck(log[i]) /\ log[i].arg = <<>>

(***************************************************************************)
(* C17.  Frame of set_credentials: a call of set_credentials, the one at  *)
(* the start of run_automation included, leaves the persisted URL and     *)
(* POSITIONS as they were (a key the file does not hold reads as empty).  *)
(***************************************************************************)
Persisted(f, key) == IF key \in DOMAIN f THEN f[key] ELSE <<>>

IsSetCredentialsStep ==
    /\ Len(log') = Len(log) + 1
    /\ log'[Len(log')] = Ev("save_to_env", "set_credentials", <<>>)

C17_FrameStep ==
    IsSetCredentialsStep =>
        /\ Persisted(file', "URL") = Persisted(file, "URL")
        /\ Persisted(file', "POSITIONS") = Persisted(file, "POSITIONS")

C17_SetCredentialsFrame == [][C17_FrameStep]_vars

(***************************************************************************)
(* C18.  Idempotence of merge-then-save: from any environment and file    *)
(* the process can be in, load / merge / save done twice with the same    *)
(* answers (by set_credentials or by set_registration, the second time in *)
(* the same process or in a new one) leaves the file the first time left: *)
(* each of EMAIL, PASSWORD, SIGNATURE, URL, POSITIONS is held once and no *)
(* field is lost or changed by the second save.                            *)
(***************************************************************************)
FileKeys == {"EMAIL", "PASSWORD", "SIGNATURE", "URL", "POSITIONS"}

\* environment and file after set_credentials with the given answers
AfterCredentials(e, f, email, password, signature) ==
    LET e1 == load_dotenv(e, f)
    IN  [env |-> e1,
         file |-> save_to_env(f, merge_credentials(e1, email, password, signature))]

\* environment and file after set_registration with the given answers
AfterRegistration(e, f, url, positions) ==
    LET e1 == load_dotenv(e, f)
    IN  [env |-> e1,
         file |-> save_to_env(f, merge_registration(e1, url, positions))]

\* merge-then-save done twice from environment e and file f
IdempotentFrom(e, f) ==
    /\ \A email \in EmailInputs, password \in PasswordInputs,
          signature \in SignatureInputs :
          LET once == AfterCredentials(e, f, email, password, signature)
          IN  /\ DOMAIN once.file = FileKeys \cup DOMAIN f
              /\ \A e2 \in {once.env} \cup InitEnvs :
                    AfterCredentials(e2, once.file, email, password, signature).file
                        = once.file
    /\ \A url \in UrlInputs, positions \in Selections :
          LET once == AfterRegistration(e, f, url, positions)
          IN  /\ DOMAIN once.file = FileKeys \cup DOMAIN f
              /\ \A e2 \in {once.env} \cup InitEnvs :
                    AfterRegistration(e2, once.file, url, positions).file = once.file

\* The environment and the file change only in set_credentials,
\* set_registration, line 266 and clear_url: every pair of them the process
\* reaches is the pair of a state right after one of the first three, or
\* that pair with the URL cleared.
C18_MergeSaveIdempotent ==
    (\/ pc \in {"start", "arm", "launch"}
     \/ pc = "exited" /\ runs = 0) =>
        /\ IdempotentFrom(env, file)
        /\ pc = "launch" => IdempotentFrom(env, clear_url(file))

\* set_credentials has saved to a file that did not exist, and the same
\* answers given again leave that file as it is
C18_Witness ==
    /\ pc = "exited"
    /\ runs = 0
    /\ DOMAIN file = FileKeys
    /\ file["URL"] = <<>>
    /\ \E email \in EmailInputs, password \in PasswordInputs,
          signature \in SignatureInputs :
          /\ file["SIGNATURE"] = strip(signature)
          /\ AfterCredentials(env, file, email, password, signature).file = file

(***************************************************************************)
(* C19.  The attempt uses the configuration the user supplied: the dict   *)
(* run_automation gets from its reload (line 266), whose url is the URL   *)
(* the attempt navigates to and whose positions the Form Driver checks,   *)
(* holds the URL and POSITIONS that set_registration persisted from the   *)
(* prompt of `run`, whatever the file held when the process first loaded  *)
(* it.                                                                     *)
(***************************************************************************)
C19_ReloadStep ==
    (pc = "run_automation" /\ pc' = "launch") =>
        /\ credentials'["url"] = Persisted(file, "URL")
        /\ credentials'["positions"] = Persisted(file, "POSITIONS")

C19_AttemptUsesSuppliedConfig == [][C19_ReloadStep]_vars

(***************************************************************************)
(* C20.  Idle waiting while Armed: the job never runs before it is due;   *)
(* with n > 0 left the loop sleeps n (and no less) before run_pending,    *)
(* with n <= 0 it does not sleep; the loop sleeps at most once between    *)
(* arming and running, and the run_pending after the sleep runs the job.  *)
(* time.sleep(n) is asked for exactly n; it may return up to MaxOversleep *)
(* late and never early.                                                  *)
(***************************************************************************)
Sleeps == Cardinality({i \in 1..Len(log) : log[i].op = "sleep"})

C20_NeverEarly ==
    /\ pc = "run_pending" => (~NoJob /\ now >= next_run)
    /\ runs > 0 => now >= next_run
    /\ Sleeps <= 1
    /\ (pc = "run_pending" /\ Sleeps = 0) => now = next_run

C20_LoopStep ==
    /\ (pc = "loop" /\ pc' = "run_pending" /\ idle_seconds > 0) =>
          /\ now' >= now + idle_seconds
          /\ now' <= now + idle_seconds + MaxOversleep
          /\ log' = Append(log, Ev("sleep", "loop", <<>>))
    /\ (pc = "loop" /\ pc' = "run_pending" /\ idle_seconds <= 0) =>
          /\ now' = now
          /\ log' = log
    /\ pc = "run_pending" => (pc' = "run_automation" /\ runs' = runs + 1)
    /\ (pc = "loop" /\ ~NoJob) => pc' \in {"loop", "run_pending"}

C20_IdleWaiting == []C20_NeverEarly /\ [][C20_LoopStep]_vars

\* the loop slept, woke late, and its run_pending started the job
C20_Witness ==
    /\ pc = "run_automation"
    /\ Sleeps = 1
    /\ now > next_run
    /\ runs = 1

====
